---- MODULE Spec2Model ----
(***************************************************************************)
(* Model of src/main.py: the hotel-booking dialogue state machine          *)
(* (process_user_input) and the per-call session store (active_calls)      *)
(* driven by the two webhook handlers incoming_call and gather_response.   *)
(*                                                                         *)
(* Strings that the code inspects (utterances, stored answers) are         *)
(* sequences of one-character strings, so str.strip, str.lower and the     *)
(* substring test are computed.  A dict is a function whose domain is the  *)
(* set of keys present.  Call identifiers and step names are only compared *)
(* for equality and are TLA+ strings.                                      *)
(*                                                                         *)
(* Four specifications share the variables:                                *)
(*   SpecFn    one direct call of process_user_input on bounded inputs     *)
(*   SpecChain repeated calls, each fed the state the previous returned    *)
(*   Spec      the handlers acting on active_calls                         *)
(*   SpecConc  handlers in flight at once, suspended at their await        *)
(***************************************************************************)
EXTENDS Integers, Sequences, FiniteSets, TLC

VARIABLES active_calls, last, solo, text, state, ret, turns, tasks

vars == <<active_calls, last, solo, text, state, ret, turns, tasks>>

----------------------------------------------------------------------------
(* Bounds *)

\* longest utterance drawn in SpecFn
MaxLen == 4

\* longest chain of utterances fed in SpecChain
MaxTurns == 6

\* requests handled in SpecConc
MaxTasks == 3

----------------------------------------------------------------------------
(* Strings *)

\* characters the bounded utterances are built from
Alphabet == {" ", "y", "e", "E", "s"}

\* whitespace that str.strip() removes; of these only the blank occurs in
\* the utterances drawn here
Whitespace == {" ", "\t", "\n"}

RECURSIVE LStrip(_)
LStrip(s) ==
    IF s # <<>> /\ Head(s) \in Whitespace THEN LStrip(Tail(s)) ELSE s

RECURSIVE RStrip(_)
RStrip(s) ==
    IF s # <<>> /\ s[Len(s)] \in Whitespace
    THEN RStrip(SubSeq(s, 1, Len(s) - 1))
    ELSE s

\* text.strip(), main.py line 42
Strip(s) == RStrip(LStrip(s))

\* str.lower() on one character
LowerChar(c) ==
    CASE c = "Y" -> "y"
      [] c = "E" -> "e"
      [] c = "S" -> "s"
      [] c = "N" -> "n"
      [] c = "O" -> "o"
      [] OTHER   -> c

\* text.lower(), main.py line 76
Lower(s) == [i \in 1..Len(s) |-> LowerChar(s[i])]

\* needle in hay (Python substring test), main.py line 76
Contains(hay, needle) ==
    \E i \in 1..(Len(hay) - Len(needle) + 1) :
        SubSeq(hay, i, i + Len(needle) - 1) = needle

Yes == <<"y", "e", "s">>

\* all strings over Alphabet of length at most n
StringsUpTo(n) == UNION {[1..k -> Alphabet] : k \in 0..n}

----------------------------------------------------------------------------
(* Dicts *)

\* {}
EmptyDict == [k \in {} |-> <<>>]

\* Python None (a value that is not a dict)
None == [NoneType |-> TRUE]

\* key in d
Has(d, k) == k \in DOMAIN d

\* d.get(k, default)
Get(d, k, default) == IF k \in DOMAIN d THEN d[k] ELSE default

\* d[k] = v
SetItem(d, k, v) == [x \in (DOMAIN d) \cup {k} |-> IF x = k THEN v ELSE d[x]]

\* d.get("step") == v: a dict without a step has None there, equal to no v
StepIs(d, v) == Has(d, "step") /\ d["step"] = v

\* truthiness of a state argument: None and {} are falsy
Truthy(d) == d # None /\ DOMAIN d # {}

\* {"step": "ask_location"}, main.py lines 58, 80, 107, 134
FreshState == [k \in {"step"} |-> "ask_location"]

----------------------------------------------------------------------------
(* Replies *)

\* a reply is a format with the values interpolated into it, in order
Reply(fmt, args) == [fmt |-> fmt, args |-> args]

AskLocationPrompt == Reply("Which city or hotel are you interested in?", <<>>)
AskDatesPrompt == Reply("What dates would you like to book? Please say your check-in and check-out dates.", <<>>)
AskRoomTypePrompt == Reply("What type of room would you like? For example, single, double, or suite.", <<>>)
ConfirmPrompt == Reply("Please confirm your booking. Is that correct?", <<>>)
ProvideInputPrompt == Reply("Please provide your input.", <<>>)
GreatDatesReply(t) == Reply("Great! What dates would you like to book for in {}? Please say your check-in and check-out dates.", <<t>>)
ThankRoomReply == Reply("Thank you. What type of room would you like? For example, single, double, or suite.", <<>>)
PleaseConfirmReply(r, d, l) == Reply("Please confirm: you want to book a {} room for dates {} in {}. Is that correct?", <<r, d, l>>)
BookedReply == Reply("Your booking has been confirmed. Thank you for choosing our service.", <<>>)
StartOverReply == Reply("Let's start over. Which city or hotel are you interested in?", <<>>)
AlreadyReply == Reply("Your booking is already confirmed. Thank you for choosing our service.", <<>>)
RepeatReply == Reply("I'm sorry, I didn't understand that. Could you please repeat?", <<>>)

----------------------------------------------------------------------------
(* process_user_input, main.py lines 35-87 *)

\* a normal return of (reply, state)
Return(reply, st) == [exc |-> "none", reply |-> reply, state |-> st]

\* an exception leaving the function
Raise(e) == [exc |-> e]

\* RepeatPrompt with the state initialised on silence
RepeatPrompt_Reset(st) ==
    IF st = None
    THEN Raise("AttributeError")
    ELSE Return(AskLocationPrompt, FreshState)

\* RepeatPrompt whose last branch re-asks for the location
RepeatPrompt_AskLocation(st) ==
    IF st = None
    THEN Raise("AttributeError")
    ELSE LET current_step == Get(st, "step", "ask_location")
         IN  CASE current_step = "ask_dates"     -> Return(AskDatesPrompt, st)
               [] current_step = "ask_room_type" -> Return(AskRoomTypePrompt, st)
               [] current_step = "confirm"       -> Return(ConfirmPrompt, st)
               [] OTHER                          -> Return(AskLocationPrompt, st)

\* lines 44-55: nothing was said, repeat the prompt of the current step
RepeatPrompt(st) ==
    IF st = None
    THEN Raise("AttributeError")
    ELSE LET current_step == Get(st, "step", "ask_location")
         IN  CASE current_step = "ask_location"  -> Return(AskLocationPrompt, st)
               [] current_step = "ask_dates"     -> Return(AskDatesPrompt, st)
               [] current_step = "ask_room_type" -> Return(AskRoomTypePrompt, st)
               [] current_step = "confirm"       -> Return(ConfirmPrompt, st)
               [] OTHER                          -> Return(ProvideInputPrompt, st)

\* SaidYes without the lower() of line 76
SaidYes_CaseSensitive(t) == Contains(t, Yes)

\* line 76
SaidYes(t) == Contains(Lower(t), Yes)

\* ConfirmStep with another name for the final step
ConfirmStep_Confirmed(t, st) ==
    IF SaidYes(t)
    THEN Return(BookedReply, SetItem(st, "step", "confirmed"))
    ELSE Return(StartOverReply, FreshState)

\* ConfirmStep whose decline asks again for the room type only
ConfirmStep_BackOne(t, st) ==
    IF SaidYes(t)
    THEN Return(BookedReply, SetItem(st, "step", "booked"))
    ELSE Return(StartOverReply, SetItem(st, "step", "ask_room_type"))

\* ConfirmStep whose decline only moves the step back
ConfirmStep_KeepAnswers(t, st) ==
    IF SaidYes(t)
    THEN Return(BookedReply, SetItem(st, "step", "booked"))
    ELSE Return(StartOverReply, SetItem(st, "step", "ask_location"))

\* lines 75-81
ConfirmStep(t, st) ==
    IF SaidYes(t)
    THEN Return(BookedReply, SetItem(st, "step", "booked"))
    ELSE Return(StartOverReply, FreshState)

\* StepLogic whose else branch starts the dialogue again
StepLogic_ResetUnknown(t, st) ==
    LET step == st["step"]
    IN  CASE step = "ask_location" ->
               Return(GreatDatesReply(t),
                      SetItem(SetItem(st, "location", t), "step", "ask_dates"))
          [] step = "ask_dates" ->
               Return(ThankRoomReply,
                      SetItem(SetItem(st, "dates", t), "step", "ask_room_type"))
          [] step = "ask_room_type" ->
               LET s2 == SetItem(SetItem(st, "room_type", t), "step", "confirm")
               IN  Return(PleaseConfirmReply(Get(s2, "room_type", None),
                                             Get(s2, "dates", None),
                                             Get(s2, "location", None)), s2)
          [] step = "confirm" -> ConfirmStep(t, st)
          [] step = "booked" -> Return(AlreadyReply, st)
          [] OTHER -> Return(RepeatReply, FreshState)

\* StepLogic without the branch of line 82: booked falls to the else
StepLogic_NoBooked(t, st) ==
    LET step == st["step"]
    IN  CASE step = "ask_location" ->
               Return(GreatDatesReply(t),
                      SetItem(SetItem(st, "location", t), "step", "ask_dates"))
          [] step = "ask_dates" ->
               Return(ThankRoomReply,
                      SetItem(SetItem(st, "dates", t), "step", "ask_room_type"))
          [] step = "ask_room_type" ->
               LET s2 == SetItem(SetItem(st, "room_type", t), "step", "confirm")
               IN  Return(PleaseConfirmReply(Get(s2, "room_type", None),
                                             Get(s2, "dates", None),
                                             Get(s2, "location", None)), s2)
          [] step = "confirm" -> ConfirmStep(t, st)
          [] OTHER -> Return(RepeatReply, st)

\* lines 61-87
StepLogic(t, st) ==
    LET step == st["step"]
    IN  CASE step = "ask_location" ->
               Return(GreatDatesReply(t),
                      SetItem(SetItem(st, "location", t), "step", "ask_dates"))
          [] step = "ask_dates" ->
               Return(ThankRoomReply,
                      SetItem(SetItem(st, "dates", t), "step", "ask_room_type"))
          [] step = "ask_room_type" ->
               LET s2 == SetItem(SetItem(st, "room_type", t), "step", "confirm")
               IN  Return(PleaseConfirmReply(Get(s2, "room_type", None),
                                             Get(s2, "dates", None),
                                             Get(s2, "location", None)), s2)
          [] step = "confirm" -> ConfirmStep(t, st)
          [] step = "booked" -> Return(AlreadyReply, st)
          [] OTHER -> Return(RepeatReply, st)

\* lines 57-59
Uninitialized(st) == (~Truthy(st)) \/ ~Has(st, "step")

\* process_user_input that stores the utterance as it came, not stripped
process_user_input_Unstripped(txt, st) ==
    LET t == Strip(txt)
    IN  IF t = <<>>
        THEN RepeatPrompt(st)
        ELSE IF Uninitialized(st)
             THEN Return(AskLocationPrompt, FreshState)
             ELSE StepLogic(txt, st)

\* process_user_input that starts a new booking after a finished one
process_user_input_Rebook(txt, st) ==
    LET t == Strip(txt)
    IN  IF t = <<>>
        THEN RepeatPrompt(st)
        ELSE IF Uninitialized(st) \/ st["step"] = "booked"
             THEN Return(AskLocationPrompt, FreshState)
             ELSE StepLogic(t, st)

\* process_user_input that takes the first utterance as the location
process_user_input_Consume(txt, st) ==
    LET t == Strip(txt)
    IN  IF t = <<>>
        THEN RepeatPrompt(st)
        ELSE IF Uninitialized(st)
             THEN StepLogic(t, FreshState)
             ELSE StepLogic(t, st)

process_user_input(txt, st) ==
    LET t == Strip(txt)
    IN  IF t = <<>>
        THEN RepeatPrompt(st)
        ELSE IF Uninitialized(st)
             THEN Return(AskLocationPrompt, FreshState)
             ELSE StepLogic(t, st)

----------------------------------------------------------------------------
(* Inputs of the direct calls *)

Utterances == StringsUpTo(MaxLen)

StepValues == {"ask_location", "ask_dates", "ask_room_type", "confirm", "booked"}

\* a step value outside the enumeration
GarbageSteps == {"bogus"}

\* an answer collected on an earlier turn
FieldValues == {<<"s", "e", "a">>}

FieldKeys == {"location", "dates", "room_type"}

\* every dict over the four keys
Dicts ==
    UNION {
      { [k \in ks |-> IF k = "step" THEN sv ELSE fv] :
            sv \in StepValues \cup GarbageSteps, fv \in FieldValues }
      : ks \in SUBSET (FieldKeys \cup {"step"}) }

States == {None} \cup Dicts

----------------------------------------------------------------------------
(* The session store and the handlers, main.py lines 32-33 and 93-160 *)

\* CallSid values of the notifications; "" is a request without a CallSid
CallSids == {"", "CA1", "CA2"}

\* SpeechResult values of the notifications: nothing (the default of
\* line 130), a blank, " YEs " and "no"
SpeechResults ==
    { <<>>, <<" ">>, <<" ", "Y", "E", "s", " ">>, <<"n", "o">> }

\* the (CallSid, SpeechResult) forms posted to /gather-response: every
\* speech result for a call with a CallSid, and the form that has neither
\* field (both default to "", lines 130-131)
GatherForms ==
    ((CallSids \ {""}) \X SpeechResults) \cup { <<"", <<>>>> }

\* active_calls: Dict[str, dict] = {}, line 33
NoCalls == [c \in {} |-> EmptyDict]

\* the record stored for a call id, as a sequence of length 0 or 1
Stored(store, sid) == IF sid \in DOMAIN store THEN <<store[sid]>> ELSE <<>>

\* active_calls[call_sid] = {"step": "ask_location"} instead of line 107
SetDefault_Overwrite(store, sid) == SetItem(store, sid, FreshState)

\* active_calls.setdefault(call_sid, {"step": "ask_location"}), line 107
SetDefault(store, sid) ==
    IF sid \in DOMAIN store THEN store ELSE SetItem(store, sid, FreshState)

\* lines 105-110: the effect of incoming_call on the store
IncomingCallStore(store, sid) ==
    IF sid # "" THEN SetDefault(store, sid) ELSE store

\* active_calls.get(call_sid, {}) instead of line 134
GatherState_EmptyDefault(store, sid) == Get(store, sid, EmptyDict)

\* line 134
GatherState(store, sid) == Get(store, sid, FreshState)

\* line 136 followed by the removal of the record of a finished booking
StoreUpdated_EvictBooked(store, sid, updated_state) ==
    IF StepIs(updated_state, "booked")
    THEN [c \in (DOMAIN store) \ {sid} |-> store[c]]
    ELSE SetItem(store, sid, updated_state)

\* active_calls rebound to a dict of the one call instead of line 136
StoreUpdated_Rebound(store, sid, updated_state) ==
    [c \in {sid} |-> updated_state]

\* line 136
StoreUpdated(store, sid, updated_state) == SetItem(store, sid, updated_state)

\* lines 134-136: the effect of gather_response on the store; an exception
\* of process_user_input leaves the handler before the write
GatherStore(store, sid, txt) ==
    LET r == process_user_input(txt, GatherState(store, sid))
    IN  IF r.exc = "none" THEN StoreUpdated(store, sid, r.state) ELSE store

(* TwiML: a response is the sequence of its verbs *)

Say(r) == [verb |-> "Say", text |-> r]

Gather(r) == [verb |-> "Gather", action |-> "/gather-response", say |-> r]

Hangup == [verb |-> "Hangup"]

\* lines 112-117
IncomingCallResponse ==
    << Say(Reply("Welcome to the AI Voice Assistant.", <<>>)),
       Gather(AskLocationPrompt),
       Say(Reply("We did not receive any input.", <<>>)) >>

\* lines 143-150
NextPrompt(updated_state) ==
    CASE StepIs(updated_state, "ask_dates") ->
           Reply("Please say your check-in and check-out dates.", <<>>)
      [] StepIs(updated_state, "ask_room_type") -> AskRoomTypePrompt
      [] StepIs(updated_state, "confirm") ->
           Reply("Please confirm your booking by saying yes, or say no to start over.", <<>>)
      [] OTHER -> Reply("Please continue with your response.", <<>>)

\* GatherResponse that hangs up on the reply that confirms the booking
GatherResponse_OnBookedReply(reply, updated_state) ==
    IF reply # BookedReply
    THEN << Say(reply), Gather(NextPrompt(updated_state)) >>
    ELSE << Say(reply),
            Say(Reply("Thank you for your booking. Goodbye.", <<>>)),
            Hangup >>

\* lines 138-157
GatherResponse(reply, updated_state) ==
    IF ~StepIs(updated_state, "booked")
    THEN << Say(reply), Gather(NextPrompt(updated_state)) >>
    ELSE << Say(reply),
            Say(Reply("Thank you for your booking. Goodbye.", <<>>)),
            Hangup >>

\* an exception leaving a handler: the framework answers 500
ServerError == << [verb |-> "500"] >>

\* the notification handled last and the response to it
Handled(op, sid, txt, response) ==
    [op |-> op, call_sid |-> sid, text |-> txt, response |-> response]

\* the part of a store that belongs to one call id
Only(store, sid) == [c \in (DOMAIN store) \cap {sid} |-> store[c]]

\* solo holds, for each call id, the record of a run of the handlers in
\* which the notifications of that call id are the only ones delivered;
\* after is the store of that run after the notification now handled
Alone(store, sid, after) ==
    [c \in ((DOMAIN store) \ {sid}) \cup ((DOMAIN after) \cap {sid}) |->
        IF c = sid THEN after[c] ELSE store[c]]

\* the direct-call variables while the handlers run
Idle == [exc |-> "idle"]

\* no request is in flight
NoTasks == [t \in {} |-> Idle]

HarnessIdle ==
    /\ text = <<>>
    /\ state = None
    /\ ret = Idle
    /\ turns = <<>>
    /\ tasks = NoTasks

StoreIdle ==
    /\ active_calls = NoCalls
    /\ last = [op |-> "none"]
    /\ solo = NoCalls

\* lines 93-120.  The only await (line 100) precedes every access to
\* active_calls, so the body below it runs without interleaving.
incoming_call(sid) ==
    /\ active_calls' = IncomingCallStore(active_calls, sid)
    /\ solo' = Alone(solo, sid, IncomingCallStore(Only(solo, sid), sid))
    /\ last' = Handled("incoming_call", sid, <<>>, IncomingCallResponse)
    /\ UNCHANGED <<text, state, ret, turns, tasks>>

\* lines 122-160.  The only await (line 129) precedes every access to
\* active_calls, so the body below it runs without interleaving.
gather_response(sid, txt) ==
    LET r == process_user_input(txt, GatherState(active_calls, sid))
    IN  /\ active_calls' = GatherStore(active_calls, sid, txt)
        /\ solo' = Alone(solo, sid, GatherStore(Only(solo, sid), sid, txt))
        /\ last' = Handled("gather_response", sid, txt,
                           IF r.exc = "none"
                           THEN GatherResponse(r.reply, r.state)
                           ELSE ServerError)
        /\ UNCHANGED <<text, state, ret, turns, tasks>>

Init == StoreIdle /\ HarnessIdle

Next ==
    \/ \E sid \in CallSids : incoming_call(sid)
    \/ \E form \in GatherForms : gather_response(form[1], form[2])

Spec == Init /\ [][Next]_vars

----------------------------------------------------------------------------
(* One direct call of process_user_input on every bounded input *)

InitFn ==
    /\ StoreIdle
    /\ text \in Utterances
    /\ state \in States
    /\ ret = Idle
    /\ turns = <<>>
    /\ tasks = NoTasks

Call ==
    /\ ret = Idle
    /\ ret' = process_user_input(text, state)
    /\ UNCHANGED <<text, state, turns, active_calls, last, solo, tasks>>

NextFn == Call

SpecFn == InitFn /\ [][NextFn]_vars

----------------------------------------------------------------------------
(* A conversation: each call is given the state the previous call returned *)

InitChain ==
    /\ StoreIdle
    /\ text = <<>>
    /\ state = EmptyDict
    /\ ret = Idle
    /\ turns = <<>>
    /\ tasks = NoTasks

Feed(u) ==
    /\ Len(turns) < MaxTurns
    /\ text' = u
    /\ turns' = Append(turns, u)
    /\ ret' = process_user_input(u, state)
    /\ state' = IF ret'.exc = "none" THEN ret'.state ELSE state
    /\ UNCHANGED <<active_calls, last, solo, tasks>>

NextChain == \E u \in SpeechResults : Feed(u)

SpecChain == InitChain /\ [][NextChain]_vars

----------------------------------------------------------------------------
(* Handlers in flight at once.  Each request is a task of the event loop:  *)
(* it is suspended at `await request.form()` (line 100 or 129) and, once   *)
(* resumed, runs to its return, because no other await follows.            *)

\* the notifications of one call: its call-start and its speech results
ConcNotifications ==
    { [op |-> "incoming_call", call_sid |-> "CA1", text |-> <<>>] }
    \cup { [op |-> "gather_response", call_sid |-> "CA1", text |-> u] :
               u \in SpeechResults }

\* a task: the request it handles, where it stands, and its local `state`
Task(note, pc, local) == [note |-> note, pc |-> pc, state |-> local]

\* the effect of a handler body on the store
HandlerStore(store, note) ==
    IF note.op = "incoming_call"
    THEN IncomingCallStore(store, note.call_sid)
    ELSE GatherStore(store, note.call_sid, note.text)

\* the response of a handler body run on the store
HandlerResponse(store, note) ==
    IF note.op = "incoming_call"
    THEN IncomingCallResponse
    ELSE LET r == process_user_input(note.text,
                                     GatherState(store, note.call_sid))
         IN  IF r.exc = "none" THEN GatherResponse(r.reply, r.state)
             ELSE ServerError

\* a request arrives: its handler starts and suspends at the await
Arrive(note) ==
    /\ Cardinality(DOMAIN tasks) < MaxTasks
    /\ tasks' = [t \in (DOMAIN tasks) \cup {Cardinality(DOMAIN tasks) + 1} |->
                    IF t \in DOMAIN tasks THEN tasks[t]
                    ELSE Task(note, "await_form", None)]
    /\ UNCHANGED <<active_calls, last, solo, text, state, ret, turns>>

\* a body with an await between the read of line 134 and the write of
\* line 136: the task suspends holding the state it read
Resume_AwaitBeforeWrite(t) ==
    \/ /\ tasks[t].pc = "await_form"
       /\ tasks[t].note.op = "gather_response"
       /\ tasks' = [tasks EXCEPT
                       ![t] = Task(tasks[t].note, "await_write",
                                   GatherState(active_calls,
                                               tasks[t].note.call_sid))]
       /\ UNCHANGED <<active_calls, last, solo, text, state, ret, turns>>
    \/ /\ tasks[t].pc = "await_write"
       /\ LET r == process_user_input(tasks[t].note.text, tasks[t].state)
          IN  /\ active_calls' =
                     StoreUpdated(active_calls, tasks[t].note.call_sid, r.state)
              /\ last' = Handled(tasks[t].note.op, tasks[t].note.call_sid,
                                 tasks[t].note.text,
                                 GatherResponse(r.reply, r.state))
       /\ tasks' = [tasks EXCEPT ![t] = Task(tasks[t].note, "done", None)]
       /\ UNCHANGED <<solo, text, state, ret, turns>>
    \/ /\ tasks[t].pc = "await_form"
       /\ tasks[t].note.op = "incoming_call"
       /\ active_calls' = HandlerStore(active_calls, tasks[t].note)
       /\ last' = Handled(tasks[t].note.op, tasks[t].note.call_sid,
                          tasks[t].note.text, IncomingCallResponse)
       /\ tasks' = [tasks EXCEPT ![t] = Task(tasks[t].note, "done", None)]
       /\ UNCHANGED <<solo, text, state, ret, turns>>

\* the event loop resumes a suspended task, which runs lines 105-120 or
\* 130-160 to the end
Resume(t) ==
    /\ tasks[t].pc = "await_form"
    /\ active_calls' = HandlerStore(active_calls, tasks[t].note)
    /\ last' = Handled(tasks[t].note.op, tasks[t].note.call_sid,
                       tasks[t].note.text,
                       HandlerResponse(active_calls, tasks[t].note))
    /\ tasks' = [tasks EXCEPT ![t] = Task(tasks[t].note, "done", None)]
    /\ UNCHANGED <<solo, text, state, ret, turns>>

InitConc ==
    /\ StoreIdle
    /\ HarnessIdle

NextConc ==
    \/ \E note \in ConcNotifications : Arrive(note)
    \/ \E t \in DOMAIN tasks : Resume(t)

SpecConc == InitConc /\ [][NextConc]_vars

----------------------------------------------------------------------------
(* Vocabulary of the properties *)

\* an utterance that is empty or holds blanks only: silence
Blank(u) == \A i \in 1..Len(u) : u[i] = " "

\* an utterance in which something was said
Spoken(u) == ~Blank(u)

\* "yes" in any letter case starts at position i of u
YesAt(u, i) ==
    /\ i + 2 <= Len(u)
    /\ u[i] \in {"y", "Y"}
    /\ u[i + 1] \in {"e", "E"}
    /\ u[i + 2] \in {"s", "S"}

\* u contains "yes" in any letter case at any position
MentionsYes(u) == \E i \in 1..Len(u) : YesAt(u, i)

\* the direct call has returned or raised
Called == ret # Idle

\* the direct call was given a dict
GivenDict == state # None

\* the step of the dict given to the direct call, <<>> when it has none
GivenStep == IF Has(state, "step") THEN <<state["step"]>> ELSE <<>>

----------------------------------------------------------------------------
(* C1 *)

\* C1: process_user_input is total: every call on an utterance and a state
\* (None, {}, a dict with or without a step, with any step value) returns
\* a reply and a state, both not None, and raises nothing.
Totality ==
    Called => /\ ret.exc = "none"
              /\ ret.reply # None
              /\ ret.state # None

----------------------------------------------------------------------------
(* C2 *)

\* C2: silence never advances the flow: when gather_response handles an
\* empty or blank speech result for a call that has a record, what
\* process_user_input returns for the stored record is that record, and
\* the whole store, that record included, is left exactly as it was.
SilenceKeepsRecord ==
    [][ ( /\ last'.op = "gather_response"
          /\ Blank(last'.text)
          /\ last'.call_sid \in DOMAIN active_calls )
        => /\ process_user_input(last'.text,
                                 active_calls[last'.call_sid]).state
                = active_calls[last'.call_sid]
           /\ active_calls' = active_calls ]_vars

\* a blank speech result was handled for a call that has collected answers
SilenceKeepsRecordWitness ==
    /\ last.op = "gather_response"
    /\ last.text = <<" ">>
    /\ last.call_sid \in DOMAIN active_calls
    /\ active_calls[last.call_sid]["step"] = "confirm"
    /\ Has(active_calls[last.call_sid], "room_type")

----------------------------------------------------------------------------
(* C3 *)

\* the prompt that asks again for the answer of a step
ReAsk(step) ==
    CASE step = "ask_location"  -> AskLocationPrompt
      [] step = "ask_dates"     -> AskDatesPrompt
      [] step = "ask_room_type" -> AskRoomTypePrompt
      [] step = "confirm"       -> ConfirmPrompt

AskingSteps == {"ask_location", "ask_dates", "ask_room_type", "confirm"}

\* C3 as claimed: on silence the reply is the re-ask prompt of the current
\* step, it is the ask_location prompt when the step is missing or is not
\* one of the five values, and the state is returned as given.
SilenceReAsksOrAsksLocation ==
    (Called /\ GivenDict /\ Blank(text)) =>
        /\ ret.exc = "none"
        /\ ret.state = state
        /\ (GivenStep = <<>> => ret.reply = AskLocationPrompt)
        /\ (GivenStep # <<>> /\ GivenStep[1] \in AskingSteps
                => ret.reply = ReAsk(GivenStep[1]))
        /\ (GivenStep # <<>> /\ GivenStep[1] \notin StepValues
                => ret.reply = AskLocationPrompt)

\* C3 amended: on silence the state is returned as given; the reply is the
\* re-ask prompt of the step when the step is one of ask_location,
\* ask_dates, ask_room_type, confirm, the ask_location prompt when the
\* step is missing, and "Please provide your input." when the step is
\* booked or is not a recognized value.
SilenceReAsks ==
    (Called /\ GivenDict /\ Blank(text)) =>
        /\ ret.exc = "none"
        /\ ret.state = state
        /\ (GivenStep = <<>> => ret.reply = AskLocationPrompt)
        /\ (GivenStep # <<>> /\ GivenStep[1] \in AskingSteps
                => ret.reply = ReAsk(GivenStep[1]))
        /\ (GivenStep # <<>> /\ GivenStep[1] \notin AskingSteps
                => ret.reply = ProvideInputPrompt)

\* a blank utterance was answered for a state with an unrecognized step
SilenceReAsksWitness ==
    /\ Called
    /\ text = <<" ", " ">>
    /\ GivenDict
    /\ GivenStep = <<"bogus">>
    /\ Has(state, "location")
    /\ ret.reply = ProvideInputPrompt

----------------------------------------------------------------------------
(* C4 *)

\* C4 as claimed: for any utterance whatsoever a booked state gets the
\* "already confirmed" message and is returned as given.
BookedAlwaysAlreadyConfirmed ==
    (Called /\ GivenDict /\ GivenStep = <<"booked">>) =>
        ret = Return(AlreadyReply, state)

\* C4 amended: for any utterance a booked state is returned as given; the
\* reply is the "already confirmed" message when something was said, and
\* "Please provide your input." when the utterance is empty or blank.
BookedIsTerminal ==
    (Called /\ GivenDict /\ GivenStep = <<"booked">>) =>
        /\ ret.exc = "none"
        /\ ret.state = state
        /\ (Spoken(text) => ret.reply = AlreadyReply)
        /\ (Blank(text) => ret.reply = ProvideInputPrompt)

\* a booked state with its answers was given an utterance that says yes
BookedIsTerminalWitness ==
    /\ Called
    /\ GivenDict
    /\ GivenStep = <<"booked">>
    /\ FieldKeys \subseteq DOMAIN state
    /\ MentionsYes(text)
    /\ ret.reply = AlreadyReply

----------------------------------------------------------------------------
(* C5 *)

\* the dict with the given step and the answers a1, a2, ... in the order
\* location, dates, room_type
Collected(step, answers) ==
    LET keys == <<"location", "dates", "room_type">>
    IN  [k \in {"step"} \cup {keys[i] : i \in 1..Len(answers)} |->
            IF k = "step" THEN step
            ELSE answers[CHOOSE i \in 1..Len(answers) : keys[i] = k]]

\* u without the blanks at its two ends
Trimmed(u) ==
    LET said == {i \in 1..Len(u) : u[i] # " "}
    IN  IF said = {} THEN <<>>
        ELSE SubSeq(u, CHOOSE i \in said : \A j \in said : i <= j,
                       CHOOSE i \in said : \A j \in said : j <= i)

\* the first n utterances fed all said something
AllSpoken(n) == \A i \in 1..n : Spoken(turns[i])

\* C5: starting from {}, a first spoken utterance u0 only initializes the
\* state; spoken utterances u1, u2, u3 then yield ask_dates with location
\* u1, ask_room_type with dates u2 too, confirm with room_type u3 too, and
\* an utterance u4 that contains "yes" yields the same record with step
\* booked; each stored value is its turn's utterance, trimmed.
HappyPath ==
    LET n == Len(turns)
        a1 == <<Trimmed(turns[2])>>
        a2 == <<Trimmed(turns[2]), Trimmed(turns[3])>>
        a3 == <<Trimmed(turns[2]), Trimmed(turns[3]), Trimmed(turns[4])>>
    IN  (n <= 5 /\ AllSpoken(n)) =>
            /\ n = 0 => state = EmptyDict
            /\ n = 1 => state = Collected("ask_location", <<>>)
            /\ n = 2 => state = Collected("ask_dates", a1)
            /\ n = 3 => state = Collected("ask_room_type", a2)
            /\ n = 4 => state = Collected("confirm", a3)
            /\ (n = 5 /\ MentionsYes(turns[5]))
                   => state = Collected("booked", a3)

\* five spoken utterances were fed, one of them with blanks around it, the
\* last one saying yes, and the booking is made
HappyPathWitness ==
    /\ Len(turns) = 5
    /\ AllSpoken(5)
    /\ turns[2] = <<" ", "Y", "E", "s", " ">>
    /\ turns[3] = <<"n", "o">>
    /\ MentionsYes(turns[5])
    /\ state["step"] = "booked"

----------------------------------------------------------------------------
(* C6 *)

\* C6: from any state with step confirm, an utterance that says something
\* and does not contain "yes" yields exactly {step: ask_location}, no
\* answer carried over, and the reply that asks for the location again.
DeclineRestarts ==
    ( /\ Called
      /\ GivenDict
      /\ GivenStep = <<"confirm">>
      /\ Spoken(text)
      /\ ~MentionsYes(text) )
    => /\ ret.exc = "none"
       /\ ret.state = [step |-> "ask_location"]
       /\ DOMAIN ret.state = {"step"}
       /\ ret.reply = StartOverReply

\* a confirm state holding the three answers was declined
DeclineRestartsWitness ==
    /\ Called
    /\ GivenDict
    /\ GivenStep = <<"confirm">>
    /\ FieldKeys \subseteq DOMAIN state
    /\ Spoken(text)
    /\ ~MentionsYes(text)
    /\ ret.state = [step |-> "ask_location"]

----------------------------------------------------------------------------
(* C7 *)

\* C7: at step confirm, for an utterance that says something, the next
\* step is booked exactly when the utterance contains "yes" in any letter
\* case at any position; then the answers are kept as they were; every
\* other such utterance is a decline.
YesConfirms ==
    (Called /\ GivenDict /\ GivenStep = <<"confirm">> /\ Spoken(text)) =>
        /\ ret.exc = "none"
        /\ (ret.state["step"] = "booked") <=> MentionsYes(text)
        /\ MentionsYes(text) =>
              /\ DOMAIN ret.state = DOMAIN state
              /\ \A k \in DOMAIN state \ {"step"} : ret.state[k] = state[k]
              /\ ret.reply = BookedReply
        /\ ~MentionsYes(text) =>
              /\ ret.state = [step |-> "ask_location"]
              /\ ret.reply = StartOverReply

\* a "yEs" that is neither lower case nor at the start confirmed a booking
YesConfirmsWitness ==
    /\ Called
    /\ GivenDict
    /\ GivenStep = <<"confirm">>
    /\ FieldKeys \subseteq DOMAIN state
    /\ text = <<"s", "y", "E", "s">>
    /\ ret.state["step"] = "booked"

----------------------------------------------------------------------------
(* C8 *)

\* C8: for an utterance that says something and a state that is None, is
\* empty or has no step, the result is the ask_location prompt and the
\* state {step: ask_location} without a location: the utterance is not
\* taken as the location.
UninitializedOnlyInitializes ==
    (Called /\ Spoken(text) /\ GivenStep = <<>>) =>
        /\ ret.exc = "none"
        /\ ret.reply = AskLocationPrompt
        /\ ret.state = [step |-> "ask_location"]
        /\ ~Has(ret.state, "location")

\* something was said to the empty state
UninitializedOnlyInitializesWitness ==
    /\ Called
    /\ Spoken(text)
    /\ state = EmptyDict
    /\ ret.state = [step |-> "ask_location"]

----------------------------------------------------------------------------
(* C9 *)

\* C9: for an utterance that says something and a state whose step is
\* present and is none of the five values, the reply is the "didn't
\* understand, please repeat" message and the state is returned as given.
UnknownStepRecovers ==
    ( /\ Called
      /\ GivenDict
      /\ Spoken(text)
      /\ GivenStep # <<>>
      /\ GivenStep[1] \notin StepValues )
    => ret = Return(RepeatReply, state)

\* something was said to a state with the step "bogus" and two answers
UnknownStepRecoversWitness ==
    /\ Called
    /\ Spoken(text)
    /\ GivenDict
    /\ GivenStep = <<"bogus">>
    /\ Has(state, "location")
    /\ Has(state, "dates")
    /\ ret.reply = RepeatReply

----------------------------------------------------------------------------
(* C10 *)

\* C10: a notification for one call id leaves the record stored for every
\* other call id as it was (absent stays absent), and the record of every
\* call id is the one that the notifications of that call id alone
\* produce.
SessionIsolation ==
    [][ \A b \in CallSids :
          /\ b # last'.call_sid
                => Stored(active_calls', b) = Stored(active_calls, b)
          /\ Stored(active_calls', b) = Stored(solo', b) ]_vars

\* a speech result of CA1 was handled while CA2 is at confirm and CA1 is
\* further back in the script
SessionIsolationWitness ==
    /\ last.op = "gather_response"
    /\ last.call_sid = "CA1"
    /\ Spoken(last.text)
    /\ DOMAIN active_calls = CallSids
    /\ active_calls["CA2"]["step"] = "confirm"
    /\ active_calls["CA1"]["step"] = "ask_room_type"

----------------------------------------------------------------------------
(* C11 *)

\* the tasks that have run their body
DoneTasks == {t \in DOMAIN tasks : tasks[t].pc = "done"}

\* the stores that running the handlers of the tasks in ts one after the
\* other, in any order, makes of store
RECURSIVE Serial(_, _)
Serial(ts, store) ==
    IF ts = {} THEN {store}
    ELSE UNION { Serial(ts \ {t}, HandlerStore(store, tasks[t].note)) :
                    t \in ts }

\* C11: with handlers of one call id in flight at once, the read of the
\* stored record, the transition and the write-back of a handler are not
\* interleaved with another handler's: the store is always one that the
\* handlers run so far produce when run one after the other in some
\* order, so no update is lost.
NoLostUpdate == active_calls \in Serial(DoneTasks, NoCalls)

\* two speech results of CA1 were in flight together, the one that arrived
\* later ran first, and both answers are in the record
NoLostUpdateWitness ==
    /\ DOMAIN tasks = 1..3
    /\ tasks[1].note.op = "gather_response"
    /\ tasks[2].note.op = "gather_response"
    /\ Spoken(tasks[1].note.text)
    /\ Spoken(tasks[2].note.text)
    /\ tasks[1].note.text # tasks[2].note.text
    /\ tasks[1].pc = "done"
    /\ tasks[2].pc = "done"
    /\ tasks[3].pc = "await_form"
    /\ "CA1" \in DOMAIN active_calls
    /\ active_calls["CA1"]["step"] = "ask_room_type"
    /\ active_calls["CA1"]["location"] = Trimmed(tasks[2].note.text)
    /\ active_calls["CA1"]["dates"] = Trimmed(tasks[1].note.text)

----------------------------------------------------------------------------
(* Vocabulary of the properties about the handlers *)

\* the step just taken handled a speech result / a call start
GatherHandled == last'.op = "gather_response"

StartHandled == last'.op = "incoming_call"

\* the answers a record holds
Answers(rec) == (DOMAIN rec) \cap {"location", "dates", "room_type"}

----------------------------------------------------------------------------
(* C12 *)

\* C12: after a speech result with call id c and utterance u is handled,
\* the record stored for c is the state the transition function returns
\* for u and r, where r is the record stored for c before, or a fresh
\* {step: ask_location} when c had none; so c has a record afterwards.
GatherRefinesCoreEffect ==
    [][ GatherHandled =>
          LET c == last'.call_sid
              u == last'.text
              r == IF c \in DOMAIN active_calls
                   THEN active_calls[c]
                   ELSE [step |-> "ask_location"]
          IN  /\ c \in DOMAIN active_calls'
              /\ active_calls'[c] = process_user_input(u, r).state ]_vars

\* the first notification of CA2 was a speech result that said something:
\* its record was created and took the utterance as the location
GatherRefinesCoreEffectWitness ==
    /\ last.op = "gather_response"
    /\ last.call_sid = "CA2"
    /\ Spoken(last.text)
    /\ "CA2" \in DOMAIN active_calls
    /\ active_calls["CA2"] =
          [step |-> "ask_dates", location |-> Trimmed(last.text)]
    /\ "CA1" \notin DOMAIN active_calls

----------------------------------------------------------------------------
(* C13 *)

\* C13: a call start only gets or creates: for a call id without a record
\* it stores exactly {step: ask_location}; for a call id with a record, at
\* any step, it leaves the record as it is; it touches no other record.
CallStartGetsOrCreates ==
    [][ (StartHandled /\ last'.call_sid # "") =>
          LET c == last'.call_sid
          IN  /\ c \notin DOMAIN active_calls
                    => Stored(active_calls', c) = << [step |-> "ask_location"] >>
              /\ c \in DOMAIN active_calls
                    => Stored(active_calls', c) = Stored(active_calls, c)
              /\ \A b \in CallSids \ {c} :
                    Stored(active_calls', b) = Stored(active_calls, b) ]_vars

\* a call start was handled for a call whose booking is made
CallStartGetsOrCreatesWitness ==
    /\ last.op = "incoming_call"
    /\ last.call_sid = "CA1"
    /\ "CA1" \in DOMAIN active_calls
    /\ active_calls["CA1"]["step"] = "booked"
    /\ Answers(active_calls["CA1"]) = {"location", "dates", "room_type"}

----------------------------------------------------------------------------
(* C14 *)

\* C14: in every reachable state every record of the session store has a
\* step that is one of ask_location, ask_dates, ask_room_type, confirm,
\* booked.
StepsAreValid ==
    \A c \in DOMAIN active_calls :
        /\ Has(active_calls[c], "step")
        /\ active_calls[c]["step"] \in
              {"ask_location", "ask_dates", "ask_room_type", "confirm", "booked"}

\* the store holds a booked record, a record at confirm and the record of
\* the requests without a CallSid
StepsAreValidWitness ==
    /\ DOMAIN active_calls = {"", "CA1", "CA2"}
    /\ active_calls["CA1"]["step"] = "booked"
    /\ active_calls["CA2"]["step"] = "confirm"

----------------------------------------------------------------------------
(* C15 *)

\* the answers that go with a step
AnswersAt(step) ==
    CASE step = "ask_location"  -> {}
      [] step = "ask_dates"     -> {"location"}
      [] step = "ask_room_type" -> {"location", "dates"}
      [] step = "confirm"       -> {"location", "dates", "room_type"}
      [] step = "booked"        -> {"location", "dates", "room_type"}

\* the answers of a record are those of its step, none of them empty
WellFormed(rec) ==
    /\ Answers(rec) = AnswersAt(rec["step"])
    /\ \A k \in Answers(rec) : rec[k] # <<>>

\* the step just taken was a decline of call c at confirm
Declined(c) ==
    /\ GatherHandled
    /\ last'.call_sid = c
    /\ Spoken(last'.text)
    /\ ~MentionsYes(last'.text)
    /\ active_calls[c]["step"] = "confirm"
    /\ active_calls'[c] = [step |-> "ask_location"]

\* C15: in every stored record the collected answers match the step (none
\* at ask_location, location at ask_dates, location and dates at
\* ask_room_type, all three at confirm and booked), every answer set is
\* non-empty, and an answer keeps its value until a decline at confirm
\* resets the record.
AnswersMatchStep ==
    [][ /\ \A c \in DOMAIN active_calls' : WellFormed(active_calls'[c])
        /\ \A c \in DOMAIN active_calls :
              \/ Declined(c)
              \/ /\ c \in DOMAIN active_calls'
                 /\ \A k \in Answers(active_calls[c]) :
                       /\ k \in Answers(active_calls'[c])
                       /\ active_calls'[c][k] = active_calls[c][k] ]_vars

\* a record holding the three answers was just reset by a decline while
\* the other call keeps its two answers
AnswersMatchStepWitness ==
    /\ last.op = "gather_response"
    /\ last.call_sid = "CA1"
    /\ last.text = <<"n", "o">>
    /\ last.response[1] = Say(StartOverReply)
    /\ DOMAIN active_calls = {"CA1", "CA2"}
    /\ active_calls["CA1"] = [step |-> "ask_location"]
    /\ active_calls["CA2"]["step"] = "ask_room_type"

----------------------------------------------------------------------------
(* C16 *)

\* C16: records are never removed: a call id that has a record has one in
\* every later state, whatever notification follows.
RecordsStay == [][ DOMAIN active_calls \subseteq DOMAIN active_calls' ]_vars

\* a booking was just completed for CA1 and its record is in the store,
\* beside the record of a call that declined
RecordsStayWitness ==
    /\ last.op = "gather_response"
    /\ last.call_sid = "CA1"
    /\ MentionsYes(last.text)
    /\ DOMAIN active_calls = {"CA1", "CA2"}
    /\ active_calls["CA1"]["step"] = "booked"
    /\ active_calls["CA2"] = [step |-> "ask_location"]

----------------------------------------------------------------------------
(* C17 *)

\* C17: booked is absorbing: once the stored step of a call id is booked,
\* any notification, for that or another call id, leaves the record with
\* step booked and with its location, dates and room_type as they were.
BookedIsAbsorbing ==
    [][ \A c \in DOMAIN active_calls :
          active_calls[c]["step"] = "booked"
             => /\ c \in DOMAIN active_calls'
                /\ active_calls'[c] = active_calls[c] ]_vars

\* a booked call was spoken to again, with a "no", and is still booked
BookedIsAbsorbingWitness ==
    /\ last.op = "gather_response"
    /\ last.call_sid = "CA1"
    /\ last.text = <<"n", "o">>
    /\ last.response[1] = Say(AlreadyReply)
    /\ active_calls["CA1"]["step"] = "booked"

----------------------------------------------------------------------------
(* C18 *)

\* the verbs of a response
Verbs(response) == {response[i].verb : i \in 1..Len(response)}

\* the response says goodbye, hangs up and solicits nothing
EndsCall(response) ==
    /\ "Hangup" \in Verbs(response)
    /\ "Gather" \notin Verbs(response)
    /\ \E i \in 1..Len(response) :
          /\ response[i].verb = "Say"
          /\ response[i].text.fmt = "Thank you for your booking. Goodbye."
    /\ response[Len(response)].verb = "Hangup"

\* the response solicits an utterance posted back to the speech handler
Solicits(response) ==
    /\ "Hangup" \notin Verbs(response)
    /\ \E i \in 1..Len(response) :
          /\ response[i].verb = "Gather"
          /\ response[i].action = "/gather-response"

\* C18: the response to a speech result ends the interaction (goodbye and
\* hangup, nothing solicited) exactly when the state the transition
\* returned, which is the record now stored for the call, has step booked;
\* for every other step it solicits another utterance that is posted back
\* to the speech-result handler.
HangupIffBooked ==
    last.op = "gather_response" =>
        LET step == active_calls[last.call_sid]["step"]
        IN  /\ EndsCall(last.response) <=> step = "booked"
            /\ Solicits(last.response) <=> step # "booked"

\* silence on a booked call: the reply is not the confirmation, and the
\* response hangs up all the same
HangupIffBookedWitness ==
    /\ last.op = "gather_response"
    /\ Blank(last.text)
    /\ active_calls[last.call_sid]["step"] = "booked"
    /\ last.response[1] = Say(ProvideInputPrompt)
    /\ EndsCall(last.response)

----------------------------------------------------------------------------
(* C19 *)

\* the edges of the script
ScriptEdges ==
    { <<"ask_location", "ask_dates">>,
      <<"ask_dates", "ask_room_type">>,
      <<"ask_room_type", "confirm">>,
      <<"confirm", "booked">>,
      <<"confirm", "ask_location">> }

\* C19: the stored step of a call changes only along the edges of the
\* script; a record appears at ask_location, or one edge further when the
\* first notification of the call is a speech result; so no step is
\* skipped, none moves back but by the decline, and none leaves booked.
StepFollowsScript ==
    [][ \A c \in DOMAIN active_calls' :
          IF c \in DOMAIN active_calls
          THEN \/ active_calls'[c]["step"] = active_calls[c]["step"]
               \/ <<active_calls[c]["step"], active_calls'[c]["step"]>>
                     \in ScriptEdges
          ELSE \/ active_calls'[c]["step"] = "ask_location"
               \/ /\ GatherHandled
                  /\ last'.call_sid = c
                  /\ <<"ask_location", active_calls'[c]["step"]>>
                        \in ScriptEdges ]_vars

\* a yes at confirm has just booked CA2
StepFollowsScriptWitness ==
    /\ last.op = "gather_response"
    /\ last.call_sid = "CA2"
    /\ last.response[1] = Say(BookedReply)
    /\ active_calls["CA2"]["step"] = "booked"
    /\ "CA1" \in DOMAIN active_calls
    /\ active_calls["CA1"]["step"] = "ask_dates"

----------------------------------------------------------------------------
(* C20 *)

\* the steps whose question a spoken text asks
QuestionsIn(r) ==
    (IF r.fmt \in {AskLocationPrompt.fmt, StartOverReply.fmt}
     THEN {"ask_location"} ELSE {})
    \cup
    (IF r.fmt \in {AskDatesPrompt.fmt, GreatDatesReply(<<>>).fmt,
                   "Please say your check-in and check-out dates."}
     THEN {"ask_dates"} ELSE {})
    \cup
    (IF r.fmt \in {AskRoomTypePrompt.fmt, ThankRoomReply.fmt}
     THEN {"ask_room_type"} ELSE {})
    \cup
    (IF r.fmt \in {ConfirmPrompt.fmt, PleaseConfirmReply(<<>>, <<>>, <<>>).fmt,
                   "Please confirm your booking by saying yes, or say no to start over."}
     THEN {"confirm"} ELSE {})

\* the steps whose question a response asks before it listens: in the
\* texts it says up to its Gather and in the text of the Gather
Asked(response) ==
    LET g == CHOOSE i \in 1..Len(response) : response[i].verb = "Gather"
    IN  UNION { IF response[i].verb = "Say"
                THEN QuestionsIn(response[i].text)
                ELSE QuestionsIn(response[i].say) : i \in 1..g }

\* the handler answered a request of a call that has a record with a
\* response that solicits speech
SolicitedFromCall ==
    /\ last.op \in {"incoming_call", "gather_response"}
    /\ last.call_sid \in DOMAIN active_calls
    /\ "Gather" \in Verbs(last.response)

\* C20: after every response that solicits speech for a call, from the
\* call-start handler or from the speech-result handler, the question just
\* asked is the question of the step stored for that call, also when the
\* call start is for a call id whose record is past ask_location.
AskedIsStoredStep ==
    SolicitedFromCall =>
        Asked(last.response) = {active_calls[last.call_sid]["step"]}

\* the same for the responses of the speech-result handler alone
GatherAsksStoredStep ==
    (SolicitedFromCall /\ last.op = "gather_response") =>
        Asked(last.response) = {active_calls[last.call_sid]["step"]}

====
